---- MODULE Spec2Model ----
\* Model of flowctl `catalog list` (crates/flowctl/src/catalog/list/mod.rs):
\*   - filter_default_prefixes : default prefix resolution from role grants
\*   - to_vars                 : selection criteria built from the selectors
\*   - fetch_paginated_live_specs : the paginated, pull-driven record stream
\*
\* Strings are sequences of byte values, so that `starts_with` and the
\* lexicographic `cmp` of Rust strings are computed as the code computes them.
EXTENDS Integers, Sequences, FiniteSets, TLC

VARIABLES
    role_list,      \* filter_default_prefixes: the grants passed in
    max,            \* filter_default_prefixes: the limit passed in
    result,         \* filter_default_prefixes: None until it has returned
    list,           \* the List arguments (selectors)
    query_vars,     \* to_vars(&list): None until it has been computed
    pc,             \* position of the stream's coroutine
    qi,             \* index of `query_by` in the for loop over to_vars(&list)
    cursor,         \* `cursor: Option<String>` of the pagination loop
    resp,           \* `resp`, the page being iterated, None outside the edge loop
    ei,             \* index of the next edge of resp.live_specs.edges
    err,            \* the error (or panic) that ended the stream, None if none
    emitted,        \* records yielded to the consumer, in order
    requests,       \* post_graphql calls issued so far, in order
    responses,      \* pages received so far, in order
    consumer,       \* "pulling" while the stream is polled, "dropped" after
    list_args,      \* do_list: the List arguments as given by the user
    models_table,   \* do_list: include_models with OutputType::Table
    grants,         \* the role grants the principal holds
    fpc,            \* position of do_list / fetch_live_specs
    rows,           \* what fetch_live_specs returned, None before
    written         \* what ctx.write_all was given, None if not called

filterVars == <<role_list, max, result>>

buildVars == <<list, query_vars>>

streamVars == <<pc, qi, cursor, resp, ei, err, emitted, requests, responses, consumer>>

fetchVars == <<list_args, models_table, grants, fpc, rows, written>>

vars == <<role_list, max, result, list, query_vars, pc, qi, cursor, resp, ei,
          err, emitted, requests, responses, consumer, list_args, models_table,
          grants, fpc, rows, written>>

\* Option::None
None == <<>>

\* Option::Some(x)
Some(x) == <<x>>

\* Option::unwrap
Unwrap(o) == o[1]

-----------------------------------------------------------------------------
\* String values

\* "ops/dp/"
OpsDp ==
    <<111, 112, 115, 47, 100, 112, 47>>

\* "a/"
P_a ==
    <<97, 47>>

\* "a/b/"
P_a_b ==
    <<97, 47, 98, 47>>

\* "a-b/"   ('-' sorts before '/')
P_a_dash ==
    <<97, 45, 98, 47>>

\* "b/"
P_b ==
    <<98, 47>>

\* "ops/"
P_ops ==
    <<111, 112, 115, 47>>

\* "ops/dp/x/"
P_ops_dp_x ==
    <<111, 112, 115, 47, 100, 112, 47, 120, 47>>

\* "wileyCo/"
wileyCo ==
    <<119, 105, 108, 101, 121, 67, 111, 47>>

\* "acmeCo/prod/anvils/"
acmeCo_prod_anvils ==
    <<97, 99, 109, 101, 67, 111, 47, 112, 114, 111, 100, 47, 97, 110, 118, 105, 108, 115, 47>>

\* "acmeCo/dev/anvils/"
acmeCo_dev_anvils ==
    <<97, 99, 109, 101, 67, 111, 47, 100, 101, 118, 47, 97, 110, 118, 105, 108, 115, 47>>

\* "acmeCo/dev/tnt/"
acmeCo_dev_tnt ==
    <<97, 99, 109, 101, 67, 111, 47, 100, 101, 118, 47, 116, 110, 116, 47>>

\* "acmeCo/"
acmeCo ==
    <<97, 99, 109, 101, 67, 111, 47>>

\* "acmeCo/prod/"
acmeCo_prod ==
    <<97, 99, 109, 101, 67, 111, 47, 112, 114, 111, 100, 47>>

\* "acmeCo/foo/"
acmeCo_foo ==
    <<97, 99, 109, 101, 67, 111, 47, 102, 111, 111, 47>>

\* "coyoteCo/"
coyoteCo ==
    <<99, 111, 121, 111, 116, 101, 67, 111, 47>>

\* "a/x"
N_a_x ==
    <<97, 47, 120>>

\* "b/z"
N_b_z ==
    <<98, 47, 122>>

\* "a/b/y"
N_a_b_y ==
    <<97, 47, 98, 47, 121>>

-----------------------------------------------------------------------------
\* Bounds

\* longest grant list drawn for filter_default_prefixes
MaxGrants == 3

\* largest `max` drawn for filter_default_prefixes
MaxLimit == 3

\* longest --prefix list drawn
MaxPrefixes == 2

\* longest --name list drawn
MaxNames == 2

\* Sequences over S of length at most n
SeqUpTo(S, n) ==
    UNION {[1..k -> S] : k \in 0..n}

\* Elements of a sequence
Range(s) ==
    {s[i] : i \in 1..Len(s)}

-----------------------------------------------------------------------------
\* Rust string operations

\* str::starts_with
StartsWith(s, p) ==
    /\ Len(p) <= Len(s)
    /\ SubSeq(s, 1, Len(p)) = p

RECURSIVE StrCmp(_, _)
\* Ord for String: byte-wise lexicographic; -1 Less, 0 Equal, 1 Greater
StrCmp(l, r) ==
    IF l = <<>> THEN (IF r = <<>> THEN 0 ELSE -1)
    ELSE IF r = <<>> THEN 1
    ELSE IF Head(l) < Head(r) THEN -1
    ELSE IF Head(l) > Head(r) THEN 1
    ELSE StrCmp(Tail(l), Tail(r))

-----------------------------------------------------------------------------
\* filter_default_prefixes

\* variant: the whole "ops/" namespace is taken for the reserved one
RetainOps(rl) ==
    SelectSeq(rl, LAMBDA r : ~StartsWith(r.prefix, P_ops))

\* role_list.retain(|r| !r.prefix.starts_with("ops/dp/"))
Retain(rl) ==
    SelectSeq(rl, LAMBDA r : ~StartsWith(r.prefix, OpsDp))

\* variant: the comparator's operands are swapped (descending sort)
SortCmpSwapped(l, r) ==
    StrCmp(r.prefix, l.prefix)

\* the comparator of role_list.sort_by
SortCmp(l, r) ==
    StrCmp(l.prefix, r.prefix)

RECURSIVE SortInsert(_, _)
\* place x after every element that does not compare Greater than it (stable)
SortInsert(sorted, x) ==
    IF sorted = <<>> THEN <<x>>
    ELSE IF SortCmp(Head(sorted), x) = 1 THEN <<x>> \o sorted
    ELSE <<Head(sorted)>> \o SortInsert(Tail(sorted), x)

RECURSIVE SortBy(_)
\* role_list.sort_by(|l, r| l.prefix.cmp(&r.prefix)), a stable sort
SortBy(rl) ==
    IF rl = <<>> THEN <<>>
    ELSE SortInsert(SortBy(SubSeq(rl, 1, Len(rl) - 1)), rl[Len(rl)])

\* variant: no candidate is taken for redundant
IsRedundantNever(prefixes, candidate) ==
    FALSE

\* variant: the candidate is compared for equality with the last kept prefix
IsRedundantEq(prefixes, candidate) ==
    /\ prefixes # <<>>
    /\ candidate.prefix = prefixes[Len(prefixes)]

\* the `continue` condition of the candidate loop
IsRedundant(prefixes, candidate) ==
    /\ prefixes # <<>>
    /\ StartsWith(candidate.prefix, prefixes[Len(prefixes)])

RECURSIVE KeepLoop(_, _)
\* for candidate in role_list { if redundant { continue } prefixes.push(..) }
KeepLoop(rl, prefixes) ==
    IF rl = <<>> THEN prefixes
    ELSE IF IsRedundant(prefixes, Head(rl))
         THEN KeepLoop(Tail(rl), prefixes)
         ELSE KeepLoop(Tail(rl), Append(prefixes, Head(rl).prefix))

\* variant: the limit check is off by one
OverLimitGe(prefixes, m) ==
    Len(prefixes) >= m

\* if prefixes.len() > max { bail!(..) }
OverLimit(prefixes, m) ==
    Len(prefixes) > m

\* fn filter_default_prefixes(role_list, max) -> anyhow::Result<Vec<String>>
filter_default_prefixes(rl, m) ==
    LET prefixes == KeepLoop(SortBy(Retain(rl)), <<>>)
    IN  IF OverLimit(prefixes, m)
        THEN [ok |-> FALSE, prefixes |-> <<>>, max |-> m]
        ELSE [ok |-> TRUE, prefixes |-> prefixes, max |-> m]

-----------------------------------------------------------------------------
\* to_vars

\* LiveSpecsBy::PrefixAndType(ByPrefixAndType { prefix, catalog_type, data_plane_name })
PrefixAndType(prefix, l) ==
    [kind |-> "PrefixAndType", prefix |-> prefix, names |-> <<>>,
     catalog_type |-> l.catalog_type, data_plane_name |-> l.data_plane_name]

\* LiveSpecsBy::Names(names)
Names(names) ==
    [kind |-> "Names", prefix |-> <<>>, names |-> names,
     catalog_type |-> None, data_plane_name |-> None]

\* variant: the prefix criteria are pushed last prefix first
to_vars_reversed(l) ==
    [i \in 1..Len(l.prefix) |-> PrefixAndType(l.prefix[Len(l.prefix) + 1 - i], l)]
        \o (IF l.name # <<>> THEN <<Names(l.name)>> ELSE <<>>)

\* variant: the Names criterion is pushed before the prefix criteria
to_vars_names_first(l) ==
    (IF l.name # <<>> THEN <<Names(l.name)>> ELSE <<>>)
        \o [i \in 1..Len(l.prefix) |-> PrefixAndType(l.prefix[i], l)]

\* fn to_vars(list: &List) -> Vec<LiveSpecsBy>
to_vars(l) ==
    [i \in 1..Len(l.prefix) |-> PrefixAndType(l.prefix[i], l)]
        \o (IF l.name # <<>> THEN <<Names(l.name)>> ELSE <<>>)

-----------------------------------------------------------------------------
\* Inputs

\* prefixes the drawn grants range over
GrantPrefixes ==
    {P_a, P_a_b, P_a_dash, P_b, P_ops, OpsDp, P_ops_dp_x}

\* models::Capability values carried by the grants
Capabilities ==
    {"read", "admin"}

\* auth::list::AuthorizedPrefix
AuthorizedPrefix ==
    [prefix : GrantPrefixes, user_capability : Capabilities]

\* pre(prefix) of test_filter_default_prefixes
pre(prefix) ==
    [prefix |-> prefix, user_capability |-> "admin"]

\* `roles` of test_filter_default_prefixes
TestRoles ==
    <<pre(wileyCo), pre(acmeCo_prod_anvils), pre(acmeCo_dev_anvils),
      pre(acmeCo_dev_tnt), pre(acmeCo), pre(acmeCo_prod), pre(acmeCo_foo),
      pre(coyoteCo)>>

\* --prefix values drawn
SelectorPrefixes ==
    {P_a, P_a_b, P_b}

\* --name values drawn
SelectorNames ==
    {N_a_x, N_b_z}

\* SpecTypeSelector::get_single_type_selection() values drawn
CatalogTypes ==
    {None, Some("capture"), Some("collection")}

\* --data-plane-name values drawn
DataPlaneNames ==
    {None, Some("dp1")}

\* state of the do_list variables when do_list is not running
FetchIdle ==
    /\ list_args = None
    /\ models_table = FALSE
    /\ grants = <<>>
    /\ fpc = "idle"
    /\ rows = None
    /\ written = None

\* state of the stream variables before the stream exists
StreamIdle ==
    /\ pc = "idle"
    /\ qi = 0
    /\ cursor = None
    /\ resp = None
    /\ ei = 0
    /\ err = None
    /\ emitted = <<>>
    /\ requests = <<>>
    /\ responses = <<>>
    /\ consumer = "pulling"

-----------------------------------------------------------------------------
\* Specification of filter_default_prefixes as called by its callers

InitFilter ==
    /\ \/ /\ role_list \in SeqUpTo(AuthorizedPrefix, MaxGrants)
          /\ max \in 0..MaxLimit
       \/ /\ role_list = TestRoles
          /\ max \in {2, 3}
    /\ result = None
    /\ list = None
    /\ query_vars = None
    /\ StreamIdle
    /\ FetchIdle

CallFilter ==
    /\ result = None
    /\ result' = Some(filter_default_prefixes(role_list, max))
    /\ UNCHANGED <<role_list, max, buildVars, streamVars, fetchVars>>

NextFilter ==
    CallFilter

SpecFilter ==
    InitFilter /\ [][NextFilter]_vars

-----------------------------------------------------------------------------
\* Specification of to_vars

\* the selector fields of List that to_vars reads
ListArgs(prefixes, names, types, planes) ==
    [prefix : prefixes, name : names, catalog_type : types,
     data_plane_name : planes]

InitVars ==
    /\ list \in ListArgs(SeqUpTo(SelectorPrefixes, MaxPrefixes),
                         SeqUpTo(SelectorNames, MaxNames),
                         CatalogTypes, DataPlaneNames)
    /\ query_vars = None
    /\ role_list = <<>>
    /\ max = 0
    /\ result = None
    /\ StreamIdle
    /\ FetchIdle

CallToVars ==
    /\ query_vars = None
    /\ query_vars' = Some(to_vars(list))
    /\ UNCHANGED <<list, filterVars, streamVars, fetchVars>>

NextVars ==
    CallToVars

SpecVars ==
    InitVars /\ [][NextVars]_vars

-----------------------------------------------------------------------------
\* fetch_paginated_live_specs

\* "" (an empty cursor string)
C_empty ==
    <<>>

\* "c1" (an opaque cursor)
C_1 ==
    <<99, 49>>

\* most edges the modelled server returns over a whole listing
MaxRecords == 2

\* most pages with has_next_page = true the modelled server returns
MaxMorePages == 1

\* --prefix lists drawn for the stream
StreamPrefixes ==
    {<<>>, <<P_a>>, <<P_b, P_a>>}

\* --name lists drawn for the stream
StreamNames ==
    {<<>>, <<N_a_x>>}

\* list_live_specs_query::SelectRef: edge.node, with the nodes the modelled
\* server returns: a live spec, the same name being deleted, another name
\* being deleted, a live spec in a nested namespace
SelectRef ==
    {[catalog_name |-> N_a_x, live_spec |-> Some("live_spec")],
     [catalog_name |-> N_a_x, live_spec |-> None],
     [catalog_name |-> N_b_z, live_spec |-> None],
     [catalog_name |-> N_a_b_y, live_spec |-> Some("live_spec")]}

\* end_cursor values the modelled server returns
EndCursors ==
    {None, Some(C_empty), Some(C_1)}

\* resp.live_specs: edges and page_info
LiveSpecsPage ==
    [edges : SeqUpTo(SelectRef, MaxRecords), has_next_page : BOOLEAN,
     end_cursor : EndCursors]

\* number of edges in a sequence of pages
RECURSIVE EdgeCount(_)
EdgeCount(pages) ==
    IF pages = <<>> THEN 0
    ELSE Len(Head(pages).edges) + EdgeCount(Tail(pages))

\* pages with has_next_page = true in a sequence of pages
MorePages(pages) ==
    Cardinality({k \in 1..Len(pages) : pages[k].has_next_page})

\* the pages the modelled server may answer with next: bounded in edges and
\* in continuations; an empty cursor string is only drawn with has_next_page
ServerPages ==
    {p \in LiveSpecsPage :
        /\ EdgeCount(responses) + Len(p.edges) <= MaxRecords
        /\ p.has_next_page => MorePages(responses) < MaxMorePages
        /\ ~p.has_next_page => p.end_cursor # Some(C_empty)}

\* variant: by-name only when no prefix selector is given
IsByNameOnly(l) ==
    l.name # <<>> /\ l.prefix = <<>>

\* let is_by_name = !list.name_selector.name.is_empty();
IsByName(l) ==
    l.name # <<>>

\* the precondition panic at the top of fetch_paginated_live_specs
NoSelector(l) ==
    l.name = <<>> /\ l.prefix = <<>>

\* if edge.node.live_spec.is_none() && is_by_name { bail!(..) }
MustBail(node, is_by_name) ==
    node.live_spec = None /\ is_by_name

\* variant: the loop steps over every other edge
NextEdgeSkip(i) ==
    i + 2

\* `for edge in resp.live_specs.edges`: the edge after edge i
NextEdge(i) ==
    i + 1

\* variant: an empty cursor string is rejected like an absent one
MissingOrEmptyEndCursor(page) ==
    page.end_cursor = None \/ page.end_cursor = Some(C_empty)

\* variant: the end cursor is never asserted to be present
MissingEndCursorIgnored(page) ==
    FALSE

\* assert!(cursor.is_some(), ..) fails
MissingEndCursor(page) ==
    page.end_cursor = None

\* variant: the loop stops one edge short of the end of the page
EdgesLeftButLast(page, i) ==
    i < Len(page.edges)

\* `for edge in resp.live_specs.edges` has another edge at index i
EdgesLeft(page, i) ==
    i <= Len(page.edges)

\* variant: an empty page is taken for the end of the criterion
HasNextPageNonEmpty(page) ==
    page.has_next_page /\ page.edges # <<>>

\* resp.live_specs.page_info.has_next_page
HasNextPage(page) ==
    page.has_next_page

\* variant: the cursor sent is not the one received
NextCursorFixed(page) ==
    Some(C_1)

\* cursor = resp.live_specs.page_info.end_cursor; sent as `after: cursor.take()`
NextCursor(page) ==
    page.end_cursor

\* variant: the coroutine runs ahead without being polled
DrivenAlways ==
    TRUE

\* the coroutine body only advances while the stream is polled
Driven ==
    consumer = "pulling"

\* anyhow errors and panics that end the stream
Error(kind, name) ==
    Some([kind |-> kind, name |-> name])

\* list_live_specs_query::Variables { by, after, .. } as sent, with the index
\* of `by` in to_vars(&list)
Variables(q, after) ==
    [by |-> Unwrap(query_vars)[q], after |-> after, q |-> q]

\* post_graphql::<ListLiveSpecsQuery>(&client, vars): the request is in flight
SendRequest(q, after) ==
    /\ requests' = Append(requests, Variables(q, after))
    /\ pc' = "request"
    /\ qi' = q
    /\ cursor' = None
    /\ resp' = None
    /\ ei' = 0
    /\ UNCHANGED <<err, emitted>>

\* the body of the pagination loop from edge i of `page` up to the next
\* suspension, error, panic or return
RunFrom(page, i) ==
    IF EdgesLeft(page, i)
    THEN IF MustBail(page.edges[i], IsByName(list))
         THEN /\ pc' = "failed"
              /\ err' = Error("MissingNamedEntry", page.edges[i].catalog_name)
              /\ resp' = Some(page)
              /\ ei' = i
              /\ UNCHANGED <<qi, cursor, emitted, requests>>
         ELSE /\ pc' = "yield"
              /\ emitted' = Append(emitted, page.edges[i])
              /\ resp' = Some(page)
              /\ ei' = NextEdge(i)
              /\ UNCHANGED <<qi, cursor, err, requests>>
    ELSE IF ~HasNextPage(page)
         THEN IF qi < Len(Unwrap(query_vars))
              THEN SendRequest(qi + 1, None)
              ELSE /\ pc' = "done"
                   /\ resp' = None
                   /\ ei' = 0
                   /\ UNCHANGED <<qi, cursor, err, emitted, requests>>
         ELSE IF MissingEndCursor(page)
              THEN /\ pc' = "panicked"
                   /\ err' = Error("MissingEndCursor", <<>>)
                   /\ resp' = Some(page)
                   /\ ei' = i
                   /\ UNCHANGED <<qi, cursor, emitted, requests>>
              ELSE SendRequest(qi, NextCursor(page))

\* state after fetch_paginated_live_specs(client, list) has returned the stream
Init ==
    /\ list \in ListArgs(StreamPrefixes, StreamNames, {None}, {None})
    /\ query_vars = None
    /\ IF NoSelector(list)
       THEN pc = "panicked" /\ err = Error("NoSelector", <<>>)
       ELSE pc = "start" /\ err = None
    /\ qi = 0
    /\ cursor = None
    /\ resp = None
    /\ ei = 0
    /\ emitted = <<>>
    /\ requests = <<>>
    /\ responses = <<>>
    /\ consumer = "pulling"
    /\ role_list = <<>>
    /\ max = 0
    /\ result = None
    /\ FetchIdle

\* first poll: `for query_by in to_vars(&list)` and the first request
PollStart ==
    /\ pc = "start"
    /\ Driven
    /\ query_vars' = Some(to_vars(list))
    /\ IF to_vars(list) = <<>>
       THEN /\ pc' = "done"
            /\ UNCHANGED <<qi, cursor, resp, ei, err, emitted, requests>>
       ELSE /\ requests' = Append(requests, [by |-> to_vars(list)[1], after |-> None, q |-> 1])
            /\ pc' = "request"
            /\ qi' = 1
            /\ UNCHANGED <<cursor, resp, ei, err, emitted>>
    /\ UNCHANGED <<list, responses, consumer, filterVars, fetchVars>>

\* a poll that finds the response of the request in flight
PollResponse ==
    /\ pc = "request"
    /\ Driven
    /\ \E page \in ServerPages :
        /\ responses' = Append(responses, page)
        /\ RunFrom(page, 1)
    /\ UNCHANGED <<list, query_vars, consumer, filterVars, fetchVars>>

\* variant: a failed request is sent again
PollTransportRetry ==
    /\ pc = "request"
    /\ Driven
    /\ requests' = Append(requests, requests[Len(requests)])
    /\ UNCHANGED <<list, query_vars, pc, qi, cursor, resp, ei, err, emitted,
                   responses, consumer, filterVars, fetchVars>>

\* a poll that finds the request in flight failed:
\* post_graphql(..).await.context("failed to fetch live specs")?
PollTransportError ==
    /\ pc = "request"
    /\ Driven
    /\ pc' = "failed"
    /\ err' = Error("Transport", <<>>)
    /\ UNCHANGED <<list, query_vars, qi, cursor, resp, ei, emitted, requests,
                   responses, consumer, filterVars, fetchVars>>

\* a poll after a yielded record: co.yield_(edge.node).await returns
PollResume ==
    /\ pc = "yield"
    /\ Driven
    /\ RunFrom(Unwrap(resp), ei)
    /\ UNCHANGED <<list, query_vars, responses, consumer, filterVars, fetchVars>>

\* the consumer stops pulling before the stream has ended
Drop ==
    /\ pc \in {"start", "request", "yield"}
    /\ consumer = "pulling"
    /\ consumer' = "dropped"
    /\ UNCHANGED <<list, query_vars, pc, qi, cursor, resp, ei, err, emitted,
                   requests, responses, filterVars, fetchVars>>

Next ==
    \/ PollStart
    \/ PollResponse
    \/ PollTransportError
    \/ PollResume
    \/ Drop

Spec ==
    Init /\ [][Next]_vars

\* the polls of a consumer that pulls until the stream ends
NextPull ==
    \/ PollStart
    \/ PollResponse
    \/ PollTransportError
    \/ PollResume

\* the stream under a consumer that keeps pulling: every poll that can be made
\* is eventually made, and every request is eventually answered or fails
SpecLive ==
    Init /\ [][NextPull]_vars /\ WF_vars(NextPull)

-----------------------------------------------------------------------------
\* do_list and fetch_live_specs

\* const DEFAULT_PREFIX_LIMIT: usize = 5;
DEFAULT_PREFIX_LIMIT == 5

\* "a/<c>/", a namespace under "a/"
P_a_child(c) ==
    <<97, 47, c, 47>>

\* the elements of seq at the positions in I, in order
PickSeq(seq, I) ==
    [j \in 1..Cardinality(I) |->
        seq[CHOOSE i \in I : Cardinality({x \in I : x < i}) = j - 1]]

\* auth::list::list_authorized_prefixes(ctx, Capability::Read, limit): the
\* possible answers, at most `limit` of the principal's grants (all of them
\* when there are no more than that)
list_authorized_prefixes(gs, limit) ==
    IF Len(gs) <= limit THEN {gs}
    ELSE {PickSeq(gs, I) : I \in {J \in SUBSET (1..Len(gs)) : Cardinality(J) = limit}}

\* the grant lists drawn for the principal: none, reserved only, nested and
\* given out of order, more top-level namespaces than the limit, and more
\* grants than the lookup returns
GrantScenarios ==
    {<<>>,
     <<pre(P_ops_dp_x), pre(OpsDp)>>,
     <<pre(P_b), pre(P_a_b), pre(P_a), pre(P_ops_dp_x)>>,
     <<pre(P_a), pre(P_a_dash), pre(P_b), pre(P_ops), pre(wileyCo), pre(coyoteCo)>>,
     <<pre(P_a)>> \o [i \in 1..9 |-> pre(P_a_child(98 + i))] \o <<pre(P_b)>>}

\* variant: an empty resolved prefix list is not checked for
NoAccessUnchecked(prefixes) ==
    FALSE

\* if prefixes.is_empty() { bail!("the current user does not have access ..") }
NoAccess(prefixes) ==
    prefixes = <<>>

\* what fetch_live_specs returns: Ok(rows) or Err(error)
Returned(ok, items, error) ==
    Some([ok |-> ok, rows |-> items, error |-> error])

\* variant: the records collected so far are returned when the stream fails
TryCollectPartial(p, items, e) ==
    Returned(TRUE, items, None)

\* fetch_paginated_live_specs(..).try_collect().await
TryCollect(p, items, e) ==
    IF p = "done" THEN Returned(TRUE, items, None)
    ELSE Returned(FALSE, <<>>, e)

\* fetch_paginated_live_specs(ctx.client.clone(), list) returns the stream
Construct(l) ==
    /\ list' = l
    /\ IF NoSelector(l)
       THEN pc' = "panicked" /\ err' = Error("NoSelector", <<>>)
       ELSE pc' = "start" /\ err' = None
    /\ UNCHANGED <<query_vars, qi, cursor, resp, ei, emitted, requests,
                   responses, consumer>>

\* state at the call of do_list(ctx, list_args)
InitFetch ==
    /\ list_args \in ListArgs(StreamPrefixes, StreamNames, {None}, {None})
    /\ models_table \in BOOLEAN
    /\ IF NoSelector(list_args)
       THEN grants \in GrantScenarios
       ELSE grants = <<>>
    /\ fpc = "do_list"
    /\ rows = None
    /\ written = None
    /\ list = list_args
    /\ query_vars = None
    /\ role_list = <<>>
    /\ max = 0
    /\ result = None
    /\ StreamIdle

\* do_list up to the call of fetch_live_specs(ctx, list_args.clone())
DoList ==
    /\ fpc = "do_list"
    /\ fpc' = IF models_table THEN "failed" ELSE "fetch_live_specs"
    /\ UNCHANGED <<list_args, models_table, grants, rows, written, filterVars,
                   buildVars, streamVars>>

\* fetch_live_specs with a --name or --prefix selector
FetchExplicit ==
    /\ fpc = "fetch_live_specs"
    /\ ~NoSelector(list)
    /\ Construct(list)
    /\ fpc' = "collect"
    /\ UNCHANGED <<list_args, models_table, grants, rows, written, filterVars>>

\* fetch_live_specs without selectors: list_authorized_prefixes(..).await? fails
FetchLookupError ==
    /\ fpc = "fetch_live_specs"
    /\ NoSelector(list)
    /\ rows' = Returned(FALSE, <<>>, Error("Lookup", <<>>))
    /\ fpc' = "returned"
    /\ UNCHANGED <<list_args, models_table, grants, written, filterVars,
                   buildVars, streamVars>>

\* fetch_live_specs without selectors: the prefixes are resolved from the
\* grants the lookup returns (role_list is moved into filter_default_prefixes
\* and is gone after the call)
FetchDefault ==
    /\ fpc = "fetch_live_specs"
    /\ NoSelector(list)
    /\ \E rl \in list_authorized_prefixes(grants, DEFAULT_PREFIX_LIMIT * 2) :
        LET r == filter_default_prefixes(rl, DEFAULT_PREFIX_LIMIT)
        IN  /\ result' = Some(r)
            /\ IF ~r.ok
               THEN /\ rows' = Returned(FALSE, <<>>, Error("ExplicitSelectorRequired", <<>>))
                    /\ fpc' = "returned"
                    /\ UNCHANGED <<buildVars, streamVars>>
               ELSE IF NoAccess(r.prefixes)
               THEN /\ rows' = Returned(FALSE, <<>>, Error("NoAccess", <<>>))
                    /\ fpc' = "returned"
                    /\ UNCHANGED <<buildVars, streamVars>>
               ELSE /\ Construct([list EXCEPT !.prefix = r.prefixes])
                    /\ fpc' = "collect"
                    /\ UNCHANGED rows
    /\ UNCHANGED <<list_args, models_table, grants, written, role_list, max>>

\* try_collect has pulled the stream to its end: fetch_live_specs returns, or
\* the panic of the stream unwinds through it
Collect ==
    /\ fpc = "collect"
    /\ pc \in {"done", "failed", "panicked"}
    /\ IF pc = "panicked"
       THEN fpc' = "panicked" /\ UNCHANGED rows
       ELSE fpc' = "returned" /\ rows' = TryCollect(pc, emitted, err)
    /\ UNCHANGED <<list_args, models_table, grants, written, filterVars,
                   buildVars, streamVars>>

\* let rows = fetch_live_specs(..).await?; ctx.write_all(rows, ..)
WriteAll ==
    /\ fpc = "returned"
    /\ IF Unwrap(rows).ok
       THEN fpc' = "done" /\ written' = Some(Unwrap(rows).rows)
       ELSE fpc' = "failed" /\ UNCHANGED written
    /\ UNCHANGED <<list_args, models_table, grants, rows, filterVars,
                   buildVars, streamVars>>

NextFetch ==
    \/ DoList
    \/ FetchExplicit
    \/ FetchLookupError
    \/ FetchDefault
    \/ PollStart
    \/ PollResponse
    \/ PollTransportError
    \/ PollResume
    \/ Collect
    \/ WriteAll

SpecFetch ==
    InitFetch /\ [][NextFetch]_vars

-----------------------------------------------------------------------------
\* Properties of fetch_paginated_live_specs (checked under Spec)

RECURSIVE Flatten(_)
\* the edges of a sequence of pages, concatenated
Flatten(pages) ==
    IF pages = <<>> THEN <<>>
    ELSE Head(pages).edges \o Flatten(Tail(pages))

\* the last page received
LastPage ==
    responses[Len(responses)]

\* the pages received before the last one
EarlierPages ==
    SubSeq(responses, 1, Len(responses) - 1)

\* the request the last page answers
LastAnswered ==
    requests[Len(responses)]

\* positions of the edges of a page whose node has no live_spec
Absent(page) ==
    {j \in 1..Len(page.edges) : page.edges[j].live_spec = None}

\* the first of them
FirstAbsent(page) ==
    CHOOSE j \in Absent(page) : \A k \in Absent(page) : j <= k

\* C1 (as claimed): a node without live_spec that a PrefixAndType criterion
\* returned never fails the stream; MissingNamedEntry is only raised for a node
\* returned by the Names criterion.
C1_OnlyNamesRaiseMissing ==
    (pc = "failed" /\ Unwrap(err).kind = "MissingNamedEntry") =>
        LastAnswered.by.kind = "Names"

\* a page of the Names criterion holding a node without live_spec was received
C2_Case ==
    /\ responses # <<>>
    /\ LastAnswered.by.kind = "Names"
    /\ Absent(LastPage) # {}

\* in that case: no later request, the stream is suspended before that node or
\* has failed at it naming it, and exactly the nodes before it were emitted
C2_State ==
    C2_Case =>
        /\ Len(requests) = Len(responses)
        /\ pc \in {"yield", "failed"}
        /\ resp = Some(LastPage)
        /\ ei <= FirstAbsent(LastPage)
        /\ pc = "yield" => ei >= 2
        /\ emitted = Flatten(EarlierPages) \o SubSeq(LastPage.edges, 1, ei - 1)
        /\ pc = "failed" =>
            /\ ei = FirstAbsent(LastPage)
            /\ err = Error("MissingNamedEntry",
                           LastPage.edges[FirstAbsent(LastPage)].catalog_name)

\* the poll that reaches that node fails the stream
C2_Step ==
    (C2_Case /\ ei = FirstAbsent(LastPage) /\ pc = "yield" /\ pc' # pc) =>
        /\ pc' = "failed"
        /\ emitted' = emitted
        /\ requests' = requests

\* C2: when a page of the Names criterion holds a node without live_spec, the
\* stream fails with MissingNamedEntry carrying that node's catalog_name; the
\* node is never emitted, the nodes before it are emitted in order, nothing
\* after it is emitted and no further page request is issued.
C2_MissingNamedEntry ==
    []C2_State /\ [][C2_Step]_vars

\* C2 witness: the Names criterion's page, received after another criterion's
\* page, failed at its second node after the first was emitted
C2_Witness ==
    /\ C2_Case
    /\ pc = "failed"
    /\ ei = 2
    /\ Len(responses) >= 2
    /\ Len(emitted) = 1

\* C3: when the stream returns Ok (every criterion's chain ended with
\* has_next_page = false and nothing failed), the emitted records are exactly
\* the concatenation of the edges of all pages, criteria in list order and
\* pages in fetch order; their number is the sum of the pages' edge counts.
C3_ConcatenationOnDone ==
    pc = "done" =>
        /\ emitted = Flatten(responses)
        /\ Len(emitted) = EdgeCount(responses)
        /\ Len(requests) = Len(responses)
        /\ requests[1].q = 1
        /\ requests[Len(requests)].q = Len(to_vars(list))
        /\ ~LastPage.has_next_page
        /\ \A k \in 1..Len(requests) :
            requests[k].by = to_vars(list)[requests[k].q]
        /\ \A k \in 1..Len(requests) - 1 :
            requests[k + 1].q =
                IF responses[k].has_next_page THEN requests[k].q
                ELSE requests[k].q + 1

\* C3 witness: two criteria, one of them read in two pages, two different
\* records emitted
C3_Witness ==
    /\ pc = "done"
    /\ Len(to_vars(list)) = 2
    /\ Len(responses) = 3
    /\ Len(emitted) = 2
    /\ emitted[1] # emitted[2]

\* the last page received says has_next_page without an end_cursor
C4_Case ==
    /\ responses # <<>>
    /\ LastPage.has_next_page
    /\ LastPage.end_cursor = None

\* in that case: no later request, never Ok, and a panic only after all of the
\* page's records were emitted
C4_State ==
    C4_Case =>
        /\ Len(requests) = Len(responses)
        /\ qi = LastAnswered.q
        /\ pc \in {"yield", "failed", "panicked"}
        /\ pc = "yield" => (ei >= 2 /\ ei <= Len(LastPage.edges) + 1)
        /\ pc = "failed" => Unwrap(err).kind = "MissingNamedEntry"
        /\ pc = "panicked" =>
            /\ err = Error("MissingEndCursor", <<>>)
            /\ emitted = Flatten(responses)

\* the poll after the page's last record aborts
C4_Step ==
    (C4_Case /\ pc = "yield" /\ ei > Len(LastPage.edges) /\ pc' # pc) =>
        /\ pc' = "panicked"
        /\ requests' = requests
        /\ emitted' = emitted

\* C4: after a page with has_next_page = true and no end_cursor has had its
\* records emitted, the stream aborts on the missing cursor: no further
\* request is issued, the next criterion is not started and the stream does
\* not end successfully.
C4_MissingCursorAborts ==
    []C4_State /\ [][C4_Step]_vars

\* C4 witness: the abort happened after a record of that page was emitted and
\* while another criterion remained
C4_Witness ==
    /\ C4_Case
    /\ pc = "panicked"
    /\ Len(LastPage.edges) >= 1
    /\ qi < Len(to_vars(list))

\* C5: once the consumer has stopped pulling, the number of page requests
\* issued never increases (and nothing more is emitted).
C5_NoRequestsAfterDrop ==
    [][consumer = "dropped" => (requests' = requests /\ emitted' = emitted)]_vars

\* C5 witness: the consumer stopped after a record of a later page, with a
\* continuation page still to fetch
C5_Witness ==
    /\ consumer = "dropped"
    /\ pc = "yield"
    /\ Len(requests) >= 2
    /\ LastPage.has_next_page
    /\ LastPage.end_cursor # None

-----------------------------------------------------------------------------
\* Properties of filter_default_prefixes (checked under SpecFilter)

\* filter_default_prefixes has returned Ok
FilterOk ==
    /\ result # None
    /\ Unwrap(result).ok

\* the prefixes of the grants that are not under "ops/dp/"
NonReserved(rl) ==
    {p \in {rl[k].prefix : k \in 1..Len(rl)} : ~StartsWith(p, OpsDp)}

\* the elements of S that have no other element of S as a string prefix
MinimalCover(S) ==
    {p \in S : ~\E q \in S : q # p /\ StartsWith(p, q)}

\* no element at one position is a string prefix of the element at another
NonNested(out) ==
    \A i, j \in 1..Len(out) : i # j => ~StartsWith(out[j], out[i])

\* strictly ascending in byte-wise lexicographic order
StrictlyAscending(out) ==
    \A i \in 1..Len(out) - 1 : StrCmp(out[i], out[i + 1]) = -1

\* C6: whenever filter_default_prefixes succeeds, no two distinct positions of
\* the returned list hold prefixes one of which starts with the other (so no
\* duplicates either), whatever the order and multiplicity of the grants.
C6_PairwiseNonNested ==
    FilterOk => NonNested(Unwrap(result).prefixes)

\* C6 witness: grants given child-before-parent, and a result of two prefixes
C6_Witness ==
    /\ FilterOk
    /\ Len(Unwrap(result).prefixes) = 2
    /\ \E i, j \in 1..Len(role_list) :
        /\ i < j
        /\ role_list[i].prefix = P_a_b
        /\ role_list[j].prefix = P_a

\* C7: whenever filter_default_prefixes succeeds, every input grant that is not
\* under "ops/dp/" has exactly one element of the output that is a string
\* prefix of (or equal to) its prefix.
C7_CoveredExactlyOnce ==
    FilterOk =>
        \A k \in 1..Len(role_list) :
            ~StartsWith(role_list[k].prefix, OpsDp) =>
                Cardinality({i \in 1..Len(Unwrap(result).prefixes) :
                    StartsWith(role_list[k].prefix, Unwrap(result).prefixes[i])}) = 1

\* C7 witness: a success where a nested grant is covered by its parent only
\* and a grant under "ops/" (not under "ops/dp/") is kept
C7_Witness ==
    /\ FilterOk
    /\ Unwrap(result).prefixes = <<P_a, P_ops>>
    /\ \E i \in 1..Len(role_list) : role_list[i].prefix = P_a_b

\* C8: filter_default_prefixes fails exactly when the number of kept prefixes
\* (not under "ops/dp/", not covered by another such grant) is greater than
\* max; otherwise it returns all of them, never fewer.
C8_FailsIffOverMax ==
    result # None =>
        LET r == Unwrap(result)
            kept == MinimalCover(NonReserved(role_list))
        IN  /\ r.ok <=> Cardinality(kept) <= max
            /\ r.ok =>
                /\ Range(r.prefixes) = kept
                /\ Len(r.prefixes) = Cardinality(kept)

\* C8 witness: more grants than max, yet a success with exactly max prefixes
\* because reserved and covered grants do not count
C8_Witness ==
    /\ FilterOk
    /\ Len(role_list) > max
    /\ Len(Unwrap(result).prefixes) = max
    /\ max >= 1
    /\ \E i \in 1..Len(role_list) : StartsWith(role_list[i].prefix, OpsDp)

\* C9: on success the result is, in strictly ascending lexicographic order,
\* exactly the set of input prefixes that are not under "ops/dp/" and have no
\* other such input prefix as a proper string prefix; it is empty for an empty
\* grant list, and for the grants of test_filter_default_prefixes with max = 3
\* it is [acmeCo/, coyoteCo/, wileyCo/].
C9_MinimalCoverSorted ==
    /\ FilterOk =>
        /\ StrictlyAscending(Unwrap(result).prefixes)
        /\ Range(Unwrap(result).prefixes) = MinimalCover(NonReserved(role_list))
    /\ (result # None /\ role_list = <<>>) =>
        /\ Unwrap(result).ok
        /\ Unwrap(result).prefixes = <<>>
    /\ (result # None /\ role_list = TestRoles /\ max = 3) =>
        /\ Unwrap(result).ok
        /\ Unwrap(result).prefixes = <<acmeCo, coyoteCo, wileyCo>>

\* C9 witness: the call of test_filter_default_prefixes with max = 3 has returned
C9_Witness ==
    /\ result # None
    /\ role_list = TestRoles
    /\ max = 3

-----------------------------------------------------------------------------
\* Properties of to_vars (checked under SpecVars)

\* C10: to_vars returns one PrefixAndType criterion per --prefix value, in the
\* same order, each with the list's type and data-plane filters, followed by
\* one Names criterion holding all --name values iff there is any; nothing else.
C10_ToVarsShape ==
    query_vars # None =>
        LET v == Unwrap(query_vars)
            np == Len(list.prefix)
        IN  /\ Len(v) = np + (IF list.name # <<>> THEN 1 ELSE 0)
            /\ \A i \in 1..np :
                /\ v[i].kind = "PrefixAndType"
                /\ v[i].prefix = list.prefix[i]
                /\ v[i].catalog_type = list.catalog_type
                /\ v[i].data_plane_name = list.data_plane_name
            /\ list.name # <<>> =>
                /\ v[np + 1].kind = "Names"
                /\ v[np + 1].names = list.name

\* C10 witness: two different prefixes, two names and both filters set
C10_Witness ==
    /\ query_vars # None
    /\ Len(list.prefix) = 2
    /\ list.prefix[1] # list.prefix[2]
    /\ Len(list.name) = 2
    /\ list.catalog_type # None
    /\ list.data_plane_name # None
    /\ Len(Unwrap(query_vars)) = 3

-----------------------------------------------------------------------------
\* Further properties of fetch_paginated_live_specs (checked under Spec)

\* request k is the first one of its criterion
FirstOfCriterion(k) ==
    k = 1 \/ requests[k].q # requests[k - 1].q

C12_EmptyCursorNeverSent ==
    \A k \in 1..Len(requests) : requests[k].after # Some(C_empty)

\* page k says has_next_page and carries the empty cursor string
EmptyCursorPage(k) ==
    /\ responses[k].has_next_page
    /\ responses[k].end_cursor = Some(C_empty)

\* C12 (amended): a present but empty end_cursor is an opaque cursor like any
\* other: the stream does not abort on it, and the request that follows the
\* page is for the same criterion and carries the empty string; only an absent
\* end_cursor aborts.
C12_EmptyCursorPassedBack ==
    /\ \A k \in 1..Len(responses) :
        EmptyCursorPage(k) =>
            /\ k = Len(responses) => pc \in {"yield", "failed", "request"}
            /\ (k = Len(responses) /\ pc = "failed") =>
                    \/ Unwrap(err).kind = "MissingNamedEntry"
                    \/ Unwrap(err).kind = "Transport" /\ Len(requests) = k + 1
            /\ k < Len(requests) =>
                /\ requests[k + 1].q = requests[k].q
                /\ requests[k + 1].after = Some(C_empty)
    /\ (pc = "panicked" /\ responses # <<>>) => LastPage.end_cursor = None

\* C12 witness: the request after such a page, whose record was emitted, is in
\* flight with the empty cursor
C12_Witness ==
    /\ Len(responses) = 1
    /\ EmptyCursorPage(1)
    /\ Len(responses[1].edges) = 1
    /\ pc = "request"
    /\ Len(requests) = 2
    /\ requests[2].after = Some(C_empty)

\* at most one request is unanswered, every record received before a request
\* was delivered before it was issued, and only the rest of the last page is
\* held back
C14_State ==
    /\ Len(requests) - Len(responses) \in {0, 1}
    /\ pc = "request" =>
        /\ Len(requests) = Len(responses) + 1
        /\ emitted = Flatten(responses)
        /\ resp = None
    /\ pc \in {"start", "yield", "done"} => Len(requests) = Len(responses)
    /\ pc = "yield" =>
        /\ resp = Some(LastPage)
        /\ emitted = Flatten(EarlierPages) \o SubSeq(LastPage.edges, 1, ei - 1)

\* a request is issued only by a poll, one at a time, and a poll delivers at
\* most one record
C14_Step ==
    /\ requests' # requests =>
        /\ consumer = "pulling"
        /\ consumer' = "pulling"
        /\ Len(requests') = Len(requests) + 1
        /\ SubSeq(requests', 1, Len(requests)) = requests
        /\ emitted' = emitted
    /\ emitted' # emitted =>
        /\ consumer = "pulling"
        /\ Len(emitted') = Len(emitted) + 1

\* C14: requests are issued only while a pull is served, at most one is
\* outstanding, the next one is never issued before every record of the pages
\* already fetched was delivered, and at most one page is buffered.
C14_DemandDriven ==
    []C14_State /\ [][C14_Step]_vars

\* C14 witness: the second request is in flight after both records of the
\* first page were delivered
C14_Witness ==
    /\ pc = "request"
    /\ Len(requests) = 2
    /\ Len(responses) = 1
    /\ Len(responses[1].edges) = 2
    /\ Len(emitted) = 2

\* the stream has ended with an error or a panic
Failed ==
    pc \in {"failed", "panicked"}

\* what was emitted and requested when the stream failed
C15_State ==
    /\ Len(requests) <= Len(responses) + 1
    /\ Failed => err # None
    /\ (Failed /\ Unwrap(err).kind = "Transport") =>
        /\ Len(requests) = Len(responses) + 1
        /\ emitted = Flatten(responses)
    /\ (Failed /\ Unwrap(err).kind = "MissingNamedEntry") =>
        /\ Len(requests) = Len(responses)
        /\ emitted = Flatten(EarlierPages) \o SubSeq(LastPage.edges, 1, ei - 1)
        /\ LastPage.edges[ei].live_spec = None
    /\ (Failed /\ Unwrap(err).kind = "MissingEndCursor") =>
        /\ Len(requests) = Len(responses)
        /\ emitted = Flatten(responses)
    /\ ~Failed => err = None

\* an error ends the stream in the step that meets it, and nothing follows
C15_Step ==
    /\ Failed =>
        /\ pc' = pc
        /\ err' = err
        /\ emitted' = emitted
        /\ requests' = requests
        /\ responses' = responses
    /\ (~Failed /\ pc' \in {"failed", "panicked"}) =>
        /\ emitted' = emitted
        /\ requests' = requests

\* C15: a failed request is attempted once; the first error of any kind ends
\* the stream on the pull that met it, after which no record is emitted and no
\* request is issued; what was emitted before is exactly the stream up to the
\* error.
C15_FailedIsAbsorbing ==
    []C15_State /\ [][C15_Step]_vars

\* C15 witness: the second request failed after a record of the first page
\* had been emitted
C15_Witness ==
    /\ pc = "failed"
    /\ Unwrap(err).kind = "Transport"
    /\ Len(requests) = 2
    /\ Len(emitted) = 1

-----------------------------------------------------------------------------
\* Termination (checked under SpecLive)

\* the stream has ended
Terminated ==
    pc \in {"done", "failed", "panicked"}

\* Ok is returned only when every criterion was queried, every page that
\* announced a next page was followed up, and every record was emitted
C16_DoneIsComplete ==
    pc = "done" =>
        /\ emitted = Flatten(responses)
        /\ Len(requests) = Len(responses)
        /\ {requests[k].q : k \in 1..Len(requests)} = 1..Len(to_vars(list))
        /\ ~LastPage.has_next_page
        /\ \A k \in 1..Len(responses) - 1 :
            responses[k].has_next_page => requests[k + 1].q = requests[k].q

\* C16: with a consumer that keeps pulling and finite page chains the stream
\* eventually ends, in Ok or in an error; it ends in Ok only after the last
\* page of the last criterion was emitted, never while a criterion is
\* unqueried or an announced next page was not fetched.
C16_Terminates ==
    <>Terminated /\ []C16_DoneIsComplete

\* C16 witness: Ok after three criteria, one of them read in two pages
C16_Witness ==
    /\ pc = "done"
    /\ Len(to_vars(list)) = 3
    /\ Len(responses) = 4
    /\ Len(emitted) >= 1

-----------------------------------------------------------------------------
\* Properties of do_list and fetch_live_specs (checked under SpecFetch)

\* the prefix list was resolved from the grants, not given by the user
DefaultMode ==
    NoSelector(list_args) /\ fpc \in {"collect", "returned", "done", "failed", "panicked"}
        /\ result # None /\ Unwrap(result).ok /\ Unwrap(result).prefixes # <<>>

\* the prefixes of the PrefixAndType requests, in the order they were issued
RequestedPrefixes ==
    [k \in 1..Len(requests) |->
        IF requests[k].by.kind = "PrefixAndType" THEN requests[k].by.prefix ELSE <<>>]

\* C13 as stated: in every listing the PrefixAndType requests are issued in
\* ascending order of prefix, whatever order the prefixes were given in, and
\* the Names requests come after all of them.
C13_PrefixesAscending ==
    \A j, k \in 1..Len(requests) :
        j < k =>
            /\ requests[j].by.kind = "Names" => requests[k].by.kind = "Names"
            /\ (requests[j].by.kind = "PrefixAndType"
                    /\ requests[k].by.kind = "PrefixAndType") =>
                StrCmp(requests[j].by.prefix, requests[k].by.prefix) <= 0

\* C13 amended: the criteria are executed in the order of the prefix list the
\* stream was given, one PrefixAndType criterion per position and the Names
\* criterion last, and records are emitted in the order received; that list is
\* strictly ascending when it came from default resolution and is the user's
\* list, in the user's order, when selectors were given.
C13_ListOrder ==
    /\ requests # <<>> =>
        /\ requests[1].q = 1
        /\ \A k \in 1..Len(requests) :
            /\ requests[k].q \in 1..(Len(list.prefix) + (IF list.name # <<>> THEN 1 ELSE 0))
            /\ requests[k].q <= Len(list.prefix) =>
                requests[k].by = PrefixAndType(list.prefix[requests[k].q], list)
            /\ requests[k].q > Len(list.prefix) => requests[k].by = Names(list.name)
            /\ k < Len(requests) => requests[k + 1].q - requests[k].q \in {0, 1}
    /\ Len(emitted) <= Len(Flatten(responses))
    /\ emitted = SubSeq(Flatten(responses), 1, Len(emitted))
    /\ DefaultMode =>
        /\ list.prefix = Unwrap(result).prefixes
        /\ StrictlyAscending(list.prefix)
        /\ list.name = <<>>
    /\ ~NoSelector(list_args) => list = list_args

\* C13 witness: the user gave "b/" before "a/" and a name; "b/" was queried
\* first, then "a/", then the names
C13_Witness ==
    /\ list_args.prefix = <<P_b, P_a>>
    /\ list_args.name # <<>>
    /\ Len(requests) = 3
    /\ RequestedPrefixes = <<P_b, P_a, <<>> >>
    /\ requests[3].by.kind = "Names"
    /\ Len(emitted) >= 1

\* C17 as stated: without selectors, whenever the listing goes ahead every
\* non-reserved prefix granted to the principal is covered by one of the
\* prefixes queried, however many grants the principal holds; otherwise the
\* operation has failed with the explicit-selector error.
C17_NoHiddenGrants ==
    (NoSelector(list_args) /\ fpc = "collect") =>
        \A g \in NonReserved(grants) :
            \E i \in 1..Len(list.prefix) : StartsWith(g, list.prefix[i])

\* fetch_live_specs returned the no-access error
NoAccessError ==
    rows # None /\ ~Unwrap(rows).ok /\ Unwrap(rows).error = Error("NoAccess", <<>>)

\* C18: the stream producer is only ever invoked with a name or a prefix, so
\* its precondition panic never fires; without selectors an empty resolved
\* prefix set (no grants, or only "ops/dp/" grants) ends in the no-access
\* error before any request is issued; prefixes are resolved from the grants
\* only when both selectors are empty, and explicit selectors are passed
\* through unchanged.
C18_PanicUnreachable ==
    /\ err # Error("NoSelector", <<>>)
    /\ pc # "idle" =>
        /\ ~NoSelector(list)
        /\ fpc \in {"collect", "returned", "done", "failed", "panicked"}
    /\ fpc = "collect" => pc # "idle"
    /\ NoAccessError <=>
        /\ fpc \in {"returned", "failed"}
        /\ result # None
        /\ Unwrap(result).ok
        /\ Unwrap(result).prefixes = <<>>
    /\ NoAccessError =>
        /\ NoSelector(list_args)
        /\ NonReserved(grants) = {}
        /\ pc = "idle"
        /\ requests = <<>>
        /\ emitted = <<>>
    /\ (NoSelector(list_args) /\ NonReserved(grants) = {} /\ rows # None) =>
        /\ ~Unwrap(rows).ok
        /\ Unwrap(rows).error \in {Error("NoAccess", <<>>), Error("Lookup", <<>>)}
    /\ result # None => NoSelector(list_args)
    /\ ~NoSelector(list_args) =>
        /\ result = None
        /\ list = list_args
    /\ (NoSelector(list_args) /\ pc # "idle") =>
        /\ list.prefix = Unwrap(result).prefixes
        /\ list.prefix # <<>>
        /\ [list EXCEPT !.prefix = <<>>] = list_args

\* C18 witness: the principal holds only "ops/dp/" grants, no selector was
\* given, and fetch_live_specs returned the no-access error with no stream
C18_Witness ==
    /\ NoAccessError
    /\ grants # <<>>
    /\ fpc = "failed"
    /\ pc = "idle"
    /\ requests = <<>>

\* the server answers a PrefixAndType request only with names under its
\* prefix, and no name twice within the pages of one criterion
WellBehaved ==
    /\ \A k \in 1..Len(responses) :
        requests[k].by.kind = "PrefixAndType" =>
            \A e \in 1..Len(responses[k].edges) :
                StartsWith(responses[k].edges[e].catalog_name, requests[k].by.prefix)
    /\ \A j, k \in 1..Len(responses) :
        requests[j].q = requests[k].q =>
            \A d \in 1..Len(responses[j].edges), e \in 1..Len(responses[k].edges) :
                (j # k \/ d # e) =>
                    responses[j].edges[d].catalog_name # responses[k].edges[e].catalog_name

\* C19: when the prefixes were resolved from the grants and the server is
\* well behaved, no catalog_name is emitted twice in the whole stream.
C19_NoDuplicateNames ==
    (DefaultMode /\ WellBehaved) =>
        \A i, j \in 1..Len(emitted) :
            i # j => emitted[i].catalog_name # emitted[j].catalog_name

\* C19 witness: the grants resolved to "a/" and "b/", each criterion answered
\* one record, and the stream ended after emitting both
C19_Witness ==
    /\ DefaultMode
    /\ WellBehaved
    /\ list.prefix = <<P_a, P_b>>
    /\ pc = "done"
    /\ Len(emitted) = 2
    /\ emitted[1].catalog_name = N_a_x
    /\ emitted[2].catalog_name = N_b_z

\* C20: fetch_live_specs returns either every record of every page of every
\* criterion, in order, or an error and no records; when the stream fails
\* after any number of emitted records, none of them is returned and nothing
\* is written to the output.
C20_AllOrNothing ==
    /\ rows # None =>
        /\ fpc \in {"returned", "done", "failed"}
        /\ Unwrap(rows).ok =>
            /\ pc = "done"
            /\ Unwrap(rows).error = None
            /\ Unwrap(rows).rows = Flatten(responses)
            /\ Len(requests) = Len(responses)
            /\ {requests[k].q : k \in 1..Len(requests)} = 1..Len(to_vars(list))
        /\ ~Unwrap(rows).ok =>
            /\ Unwrap(rows).rows = <<>>
            /\ Unwrap(rows).error # None
    /\ (pc = "failed" /\ fpc # "collect") =>
        /\ rows # None
        /\ ~Unwrap(rows).ok
        /\ Unwrap(rows).error = err
    /\ pc = "panicked" => rows = None
    /\ (pc = "done" /\ fpc # "collect") => (rows # None /\ Unwrap(rows).ok)
    /\ written # None =>
        /\ fpc = "done"
        /\ pc = "done"
        /\ written = Some(Flatten(responses))
    /\ fpc = "done" => written # None
    /\ fpc \in {"failed", "panicked"} => written = None

\* C20 witness: the stream failed after a record had been emitted;
\* fetch_live_specs returned the error without it and do_list wrote nothing
C20_Witness ==
    /\ fpc = "failed"
    /\ pc = "failed"
    /\ Len(emitted) >= 1
    /\ ~Unwrap(rows).ok
    /\ Unwrap(rows).rows = <<>>
    /\ written = None

====
